---------------------------- MODULE Spec2Model ----------------------------
(***************************************************************************)
(* Model of full_ann.py: the taxi-fare training script.  The script is one *)
(* linear run: read the CSV, engineer features, build tensors, split,      *)
(* train for EPOCHS epochs, evaluate once, print ten samples.              *)
(*                                                                         *)
(* Numeric payloads the claims do not speak about (a loss value, model     *)
(* weights, a distance in km) are kept symbolic: a record naming what the  *)
(* value was computed from.  Everything the script itself decides (column  *)
(* sets, row selection, step order, counters, printing) is concrete.       *)
(***************************************************************************)
EXTENDS Integers, Sequences, FiniteSets, TLC

\* ------------------------------------------------------------------ bounds
\* Largest number of rows of a CSV table the model reads.
MaxRows == 20
\* Largest distinct-category count the embedding formula is applied to.
MaxDistinct == 100

\* ------------------------------------------------------- program constants
EPOCHS == 300
BATCH_N == 6000
\* TEST_SPLIT = 0.2, kept as the exact fraction 1/5.
TEST_SPLIT == [num |-> 1, den |-> 5]

\* The (total_batch_size, test_fraction) pairs a run is started with: the
\* script's own constants, and small pairs a table of MaxRows rows can fill,
\* the fractions 0 and 1 among them.  For each pair here the float product
\* of the script equals the exact one.
Configs ==
    { [batch_n |-> BATCH_N, test_split |-> TEST_SPLIT],
      [batch_n |-> 8,  test_split |-> [num |-> 1, den |-> 4]],
      [batch_n |-> 20, test_split |-> [num |-> 1, den |-> 2]],
      [batch_n |-> 6,  test_split |-> [num |-> 0, den |-> 1]],
      [batch_n |-> 12, test_split |-> [num |-> 1, den |-> 1]] }

\* ----------------------------------------------------------------- helpers
Min(a, b) == IF a <= b THEN a ELSE b

Range(s) == { s[n] : n \in DOMAIN s }

\* Python's s[lo:hi] for 0 <= lo, 0 <= hi: both ends are clamped to len(s).
PySlice(s, lo, hi) ==
    LET a == Min(lo, Len(s))
        b == Min(hi, Len(s))
    IN  IF a >= b THEN << >> ELSE SubSeq(s, a + 1, b)

\* df[col] = vals: the column is added, or replaced when it exists already.
SetColumn(table, col, vals) ==
    [r \in DOMAIN table |-> (col :> vals[r]) @@ table[r]]

Columns(table) == UNION { DOMAIN table[r] : r \in DOMAIN table }

\* --------------------------------------------------------------- the input
\* Row r of the CSV file.  pickup_datetime is text: a calendar day and an
\* hour of day (UTC); day 0 is a Monday.
CsvRow(r) ==
    [ pickup_datetime   |-> [kind |-> "str", day |-> 1 + ((7 * r) \div 24),
                             hh |-> (7 * r) % 24],
      fare_amount       |-> 100 + r,
      pickup_latitude   |-> 40 + (r % 3),
      pickup_longitude  |-> 73,
      dropoff_latitude  |-> 40 + (r % 2),
      dropoff_longitude |-> 73 + (r % 2),
      passenger_count   |-> 1 + (r % 4) ]

CsvTable(n) == [r \in 1..n |-> CsvRow(r)]

RawColumns ==
    { "pickup_datetime", "fare_amount", "pickup_latitude", "pickup_longitude",
      "dropoff_latitude", "dropoff_longitude", "passenger_count" }

\* ----------------------------------------------------- feature engineering
\* geo.haversine.haversine_distance: great-circle distance of a row, kept
\* symbolic (0 for identical points).
haversine_distance(row, lat1, lon1, lat2, lon2) ==
    IF row[lat1] = row[lat2] /\ row[lon1] = row[lon2]
    THEN [km |-> "zero", from |-> <<row[lat1], row[lon1]>>,
          to |-> <<row[lat2], row[lon2]>>]
    ELSE [km |-> "positive", from |-> <<row[lat1], row[lon1]>>,
          to |-> <<row[lat2], row[lon2]>>]

\* pd.to_datetime on one cell: text becomes a timestamp, counted in hours.
to_datetime(cell) ==
    IF cell.kind = "str"
    THEN [kind |-> "datetime", hours |-> 24 * cell.day + cell.hh]
    ELSE cell

\* ts - pd.Timedelta(hours=4)
MinusFourHours(ts) == [kind |-> "datetime", hours |-> ts.hours - 4]

\* ts.dt.hour
HourOf(ts) == ts.hours % 24

\* ts.dt.strftime("%a")
WeekdayNames == <<"Mon", "Tue", "Wed", "Thu", "Fri", "Sat", "Sun">>
WeekdayOf(ts) == WeekdayNames[((ts.hours \div 24) % 7) + 1]

\* A plausible slip: the upper bound of each range taken exclusive.
rush_hour_exclusive(row) ==
    IF 8 <= row.hour /\ row.hour < 9 THEN "am_rush"
    ELSE IF 15 <= row.hour /\ row.hour < 19 THEN "pm_rush"
    ELSE "regular"

rush_hour(row) ==
    IF 8 <= row.hour /\ row.hour <= 9 THEN "am_rush"
    ELSE IF 15 <= row.hour /\ row.hour <= 19 THEN "pm_rush"
    ELSE "regular"

\* A plausible slip: the shift is written back over pickup_datetime as well.
AdjustToEDT_inplace(table) ==
    LET shifted == [r \in DOMAIN table |-> MinusFourHours(table[r].pickup_datetime)]
    IN  SetColumn(SetColumn(table, "EDTdate", shifted), "pickup_datetime", shifted)

\* df['EDTdate'] = df['pickup_datetime'] - pd.Timedelta(hours=4)
AdjustToEDT(table) ==
    SetColumn(table, "EDTdate",
              [r \in DOMAIN table |-> MinusFourHours(table[r].pickup_datetime)])

\* ---------------------------------------------------------- tensor builder
cat_cols == <<"hour", "rush", "weekday">>
cont_cols == <<"pickup_latitude", "pickup_longitude", "dropoff_latitude",
               "dropoff_longitude", "passenger_count", "dist_km">>

\* Position of a category value in the sorted order pandas gives the
\* categories: numbers by value, strings alphabetically.
SortKey(v) ==
    CASE v = "Fri" -> 1 [] v = "Mon" -> 2 [] v = "Sat" -> 3 [] v = "Sun" -> 4
      [] v = "Thu" -> 5 [] v = "Tue" -> 6 [] v = "Wed" -> 7
      [] v = "am_rush" -> 1 [] v = "pm_rush" -> 2 [] v = "regular" -> 3

\* df[col].cat.categories: the distinct values observed in the column.
Categories(table, col) == { table[r][col] : r \in DOMAIN table }

\* df[col].cat.codes.values: each value's index among the sorted categories.
CatCodes(table, col) ==
    LET cs == Categories(table, col)
        key(v) == IF col = "hour" THEN v ELSE SortKey(v)
    IN  [r \in DOMAIN table |->
            Cardinality({ c \in cs : key(c) < key(table[r][col]) })]

\* A plausible slip: size // 2 in place of (size + 1) // 2.
emb_sz_floor(size) == <<size, Min(50, size \div 2)>>

\* (size, min(50, (size+1)//2))
emb_sz(size) == <<size, Min(50, (size + 1) \div 2)>>

\* ------------------------------------------------------------------- split
\* int(BATCH_N * TEST_SPLIT)
TestSize(c) == (c.batch_n * c.test_split.num) \div c.test_split.den

\* A plausible slip: the test slice runs one row past the batch.
TestSlice_past_batch(t, c) ==
    PySlice(t, c.batch_n - TestSize(c), c.batch_n + 1)

\* t[:BATCH_N-test_size]
TrainSlice(t, c) == PySlice(t, 0, c.batch_n - TestSize(c))

\* t[BATCH_N-test_size:BATCH_N]
TestSlice(t, c) == PySlice(t, c.batch_n - TestSize(c), c.batch_n)


\* ----------------------------------------------------------- training loop
\* A plausible slip: one iteration too many.
RangeHasNext_extra(n) == n <= EPOCHS

\* for i in range(EPOCHS): n iterations have been started so far.
RangeHasNext(n) == n < EPOCHS

\* A plausible slip: the log condition written as i % 10 == 0.
ShouldLog_multiple(e) == e % 10 = 0

\* if i%10 == 1
ShouldLog(e) == e % 10 = 1

\* A plausible slip: the gradients are not cleared.
zero_grad_noop(g) == g

\* optimizer.zero_grad(): the accumulated gradients are dropped.  A gradient
\* buffer is the set of epochs whose loss has been accumulated into it.
zero_grad(g) == {}

\* loss.backward(): the gradient of this loss is added to the buffer.
backward(g, l) == g \cup {l.epoch}

\* ------------------------------------------------------------------- state
VARIABLES
    pc,            \* the statement the script executes next
    csv,           \* ./data/nyctaxifares.csv, as stored
    cfg,           \* total_batch_size and test_fraction of this run
    df,            \* the working table
    categories,    \* per categorical column, its category set
    cats, conts, y,                 \* the tensor triple
    emb_szs,
    test_size,
    cat_train, cat_test, con_train, con_test, y_train, y_test,
    mode,          \* the model's mode: "TRAIN" or "EVAL"
    params,        \* the model's parameters: how many updates they have had
    grad,          \* the parameters' gradient buffer
    applied,       \* the gradient buffer the last optimizer step applied
    grad_enabled,  \* torch's gradient tracking
    it, i,         \* range iterator position, and the loop variable
    ops,           \* the steps done so far in the current epoch
    y_pred, loss, losses,
    logged,        \* the epochs that printed a log line
    evals,         \* evaluation forward passes run
    eval_ctx,      \* mode, gradient tracking and parameters of that pass
    y_val,
    k, printed,    \* sample loop: range iterator position, the pairs printed
    fn_in, fn_out  \* argument and result of a function applied on its own

vars ==
    << pc, csv, cfg, df, categories, cats, conts, y, emb_szs, test_size,
       cat_train, cat_test, con_train, con_test, y_train, y_test,
       mode, params, grad, applied, grad_enabled, it, i, ops, y_pred, loss,
       losses, logged, evals, eval_ctx, y_val, k, printed, fn_in, fn_out >>

tableVars == << df, categories >>
tensorVars == << cats, conts, y, emb_szs >>
splitVars == << test_size, cat_train, cat_test, con_train, con_test, y_train, y_test >>
modelVars == << mode, params, grad, applied, grad_enabled >>
loopVars == << it, i, ops, y_pred, loss, losses, logged >>
evalVars == << evals, eval_ctx, y_val, k, printed >>
fnVars == << fn_in, fn_out >>

NoLoss == [epoch |-> 0, of |-> "none"]
NoCtx == [mode |-> "none", grad_enabled |-> TRUE, params |-> 0]

\* Everything the script has not assigned yet.
Unassigned ==
    /\ df = << >> /\ categories = << >>
    /\ cats = << >> /\ conts = << >> /\ y = << >> /\ emb_szs = << >>
    /\ test_size = 0
    /\ cat_train = << >> /\ cat_test = << >> /\ con_train = << >>
    /\ con_test = << >> /\ y_train = << >> /\ y_test = << >>
    /\ mode = "none" /\ params = 0 /\ grad = {} /\ applied = {}
    /\ grad_enabled = TRUE
    /\ it = 0 /\ i = 0 /\ ops = << >> /\ y_pred = << >> /\ loss = NoLoss
    /\ losses = << >> /\ logged = << >>
    /\ evals = 0 /\ eval_ctx = NoCtx /\ y_val = << >> /\ k = 0 /\ printed = << >>

Init ==
    /\ pc = "read_csv"
    /\ csv \in { CsvTable(n) : n \in 1..MaxRows }
    /\ cfg \in Configs
    /\ Unassigned
    /\ fn_in = [hour |-> 0, size |-> 1]
    /\ fn_out = [rush |-> "none", emb |-> << >>]

\* ----------------------------------------------------- feature engineering
\* df = pd.read_csv('./data/nyctaxifares.csv')
ReadCsv ==
    /\ pc = "read_csv"
    /\ df' = csv
    /\ pc' = "dist_km"
    /\ UNCHANGED << csv, cfg, categories, tensorVars, splitVars, modelVars,
                    loopVars, evalVars, fnVars >>

\* df['dist_km'] = haversine_distance(df, ...)
AddDistKm ==
    /\ pc = "dist_km"
    /\ df' = SetColumn(df, "dist_km",
               [r \in DOMAIN df |->
                   haversine_distance(df[r], "pickup_latitude", "pickup_longitude",
                                      "dropoff_latitude", "dropoff_longitude")])
    /\ pc' = "to_datetime"
    /\ UNCHANGED << csv, cfg, categories, tensorVars, splitVars, modelVars,
                    loopVars, evalVars, fnVars >>

\* df['pickup_datetime'] = pd.to_datetime(df['pickup_datetime'])
ParseDatetime ==
    /\ pc = "to_datetime"
    /\ df' = SetColumn(df, "pickup_datetime",
               [r \in DOMAIN df |-> to_datetime(df[r].pickup_datetime)])
    /\ pc' = "edt"
    /\ UNCHANGED << csv, cfg, categories, tensorVars, splitVars, modelVars,
                    loopVars, evalVars, fnVars >>

\* df['EDTdate'] = df['pickup_datetime'] - pd.Timedelta(hours=4)
AddEDTdate ==
    /\ pc = "edt"
    /\ df' = AdjustToEDT(df)
    /\ pc' = "hour"
    /\ UNCHANGED << csv, cfg, categories, tensorVars, splitVars, modelVars,
                    loopVars, evalVars, fnVars >>

\* df['hour'] = df['EDTdate'].dt.hour
AddHour ==
    /\ pc = "hour"
    /\ df' = SetColumn(df, "hour", [r \in DOMAIN df |-> HourOf(df[r].EDTdate)])
    /\ pc' = "weekday"
    /\ UNCHANGED << csv, cfg, categories, tensorVars, splitVars, modelVars,
                    loopVars, evalVars, fnVars >>

\* df['weekday'] = df['EDTdate'].dt.strftime("%a")
AddWeekday ==
    /\ pc = "weekday"
    /\ df' = SetColumn(df, "weekday", [r \in DOMAIN df |-> WeekdayOf(df[r].EDTdate)])
    /\ pc' = "rush"
    /\ UNCHANGED << csv, cfg, categories, tensorVars, splitVars, modelVars,
                    loopVars, evalVars, fnVars >>

\* df['rush'] = df.apply(rush_hour, axis=1)
AddRush ==
    /\ pc = "rush"
    /\ df' = SetColumn(df, "rush", [r \in DOMAIN df |-> rush_hour(df[r])])
    /\ pc' = "category"
    /\ UNCHANGED << csv, cfg, categories, tensorVars, splitVars, modelVars,
                    loopVars, evalVars, fnVars >>

\* ---------------------------------------------------------- tensor builder
\* for cat in cat_cols: df[cat] = df[cat].astype('category')
AsCategory ==
    /\ pc = "category"
    /\ categories' = [n \in DOMAIN cat_cols |-> Categories(df, cat_cols[n])]
    /\ pc' = "tensors"
    /\ UNCHANGED << csv, cfg, df, tensorVars, splitVars, modelVars,
                    loopVars, evalVars, fnVars >>

\* cats, conts and y: one row per table row, in table order.
BuildTensors ==
    /\ pc = "tensors"
    /\ cats' = [r \in DOMAIN df |->
                   [n \in DOMAIN cat_cols |-> CatCodes(df, cat_cols[n])[r]]]
    /\ conts' = [r \in DOMAIN df |->
                   [n \in DOMAIN cont_cols |-> df[r][cont_cols[n]]]]
    /\ y' = [r \in DOMAIN df |-> << df[r].fare_amount >>]
    /\ pc' = "emb"
    /\ UNCHANGED << csv, cfg, tableVars, emb_szs, splitVars, modelVars,
                    loopVars, evalVars, fnVars >>

\* cat_szs = [len(df[col].cat.categories) ...]; emb_szs = [(size, ...) ...]
EmbSizes ==
    /\ pc = "emb"
    /\ emb_szs' = [n \in DOMAIN cat_cols |-> emb_sz(Cardinality(categories[n]))]
    /\ pc' = "model"
    /\ UNCHANGED << csv, cfg, tableVars, cats, conts, y, splitVars, modelVars,
                    loopVars, evalVars, fnVars >>

\* model = TabularModel(...); criterion; optimizer.  A torch module is built
\* in training mode, with no gradient accumulated.
MakeModel ==
    /\ pc = "model"
    /\ mode' = "TRAIN"
    /\ params' = 0
    /\ grad' = {}
    /\ pc' = "split"
    /\ UNCHANGED << csv, cfg, tableVars, tensorVars, splitVars, applied,
                    grad_enabled, loopVars, evalVars, fnVars >>

\* ------------------------------------------------------------------- split
Split ==
    /\ pc = "split"
    /\ test_size' = TestSize(cfg)
    /\ cat_train' = TrainSlice(cats, cfg)
    /\ cat_test' = TestSlice(cats, cfg)
    /\ con_train' = TrainSlice(conts, cfg)
    /\ con_test' = TestSlice(conts, cfg)
    /\ y_train' = TrainSlice(y, cfg)
    /\ y_test' = TestSlice(y, cfg)
    /\ pc' = "loop"
    /\ UNCHANGED << csv, cfg, tableVars, tensorVars, modelVars, loopVars,
                    evalVars, fnVars >>

\* ----------------------------------------------------------- training loop
\* for i in range(EPOCHS): i += 1
LoopNext ==
    /\ pc = "loop"
    /\ IF RangeHasNext(it)
       THEN /\ it' = it + 1
            /\ i' = it + 1
            /\ ops' = << >>
            /\ pc' = "forward"
       ELSE /\ pc' = "no_grad"
            /\ UNCHANGED << it, i, ops >>
    /\ UNCHANGED << csv, cfg, tableVars, tensorVars, splitVars, modelVars,
                    y_pred, loss, losses, logged, evalVars, fnVars >>

\* y_pred = model(cat_train, con_train)
Forward ==
    /\ pc = "forward"
    /\ y_pred' = [r \in DOMAIN cat_train |->
                    [params |-> params, cat |-> cat_train[r], con |-> con_train[r]]]
    /\ ops' = Append(ops, "forward")
    /\ pc' = "loss"
    /\ UNCHANGED << csv, cfg, tableVars, tensorVars, splitVars, modelVars,
                    it, i, loss, losses, logged, evalVars, fnVars >>

\* loss = torch.sqrt(criterion(y_pred, y_train))
ComputeLoss ==
    /\ pc = "loss"
    /\ loss' = [epoch |-> i, of |-> "train"]
    /\ ops' = Append(ops, "loss")
    /\ pc' = "record"
    /\ UNCHANGED << csv, cfg, tableVars, tensorVars, splitVars, modelVars,
                    it, i, y_pred, losses, logged, evalVars, fnVars >>

\* losses.append(loss); if i%10 == 1: print(...)
RecordLoss ==
    /\ pc = "record"
    /\ losses' = Append(losses, loss)
    /\ logged' = IF ShouldLog(i) THEN Append(logged, i) ELSE logged
    /\ ops' = Append(ops, "record")
    /\ pc' = "zero_grad"
    /\ UNCHANGED << csv, cfg, tableVars, tensorVars, splitVars, modelVars,
                    it, i, y_pred, loss, evalVars, fnVars >>

\* optimizer.zero_grad()
ZeroGrad ==
    /\ pc = "zero_grad"
    /\ grad' = zero_grad(grad)
    /\ ops' = Append(ops, "zero_grad")
    /\ pc' = "backward"
    /\ UNCHANGED << csv, cfg, tableVars, tensorVars, splitVars, mode, params,
                    applied, grad_enabled, it, i, y_pred, loss, losses, logged,
                    evalVars, fnVars >>

\* loss.backward()
Backward ==
    /\ pc = "backward"
    /\ grad' = backward(grad, loss)
    /\ ops' = Append(ops, "backward")
    /\ pc' = "step"
    /\ UNCHANGED << csv, cfg, tableVars, tensorVars, splitVars, mode, params,
                    applied, grad_enabled, it, i, y_pred, loss, losses, logged,
                    evalVars, fnVars >>

\* optimizer.step(): the parameters are updated by the gradient buffer.
Step ==
    /\ pc = "step"
    /\ params' = params + 1
    /\ applied' = grad
    /\ ops' = Append(ops, "step")
    /\ pc' = "loop"
    /\ UNCHANGED << csv, cfg, tableVars, tensorVars, splitVars, mode, grad,
                    grad_enabled, it, i, y_pred, loss, losses, logged,
                    evalVars, fnVars >>

\* -------------------------------------------------------------- evaluation
\* with torch.no_grad():
EnterNoGrad ==
    /\ pc = "no_grad"
    /\ grad_enabled' = FALSE
    /\ pc' = "eval_forward"
    /\ UNCHANGED << csv, cfg, tableVars, tensorVars, splitVars, mode, params,
                    grad, applied, loopVars, evalVars, fnVars >>

\* y_val = model(cat_test, con_test)
EvalForward ==
    /\ pc = "eval_forward"
    /\ y_val' = [r \in DOMAIN cat_test |->
                    [params |-> params, cat |-> cat_test[r], con |-> con_test[r]]]
    /\ evals' = evals + 1
    /\ eval_ctx' = [mode |-> mode, grad_enabled |-> grad_enabled, params |-> params]
    /\ pc' = "eval_loss"
    /\ UNCHANGED << csv, cfg, tableVars, tensorVars, splitVars, modelVars,
                    loopVars, k, printed, fnVars >>

\* loss = torch.sqrt(criterion(y_val, y_test)); print; the with block ends.
EvalLoss ==
    /\ pc = "eval_loss"
    /\ loss' = [epoch |-> i, of |-> "test"]
    /\ grad_enabled' = TRUE
    /\ pc' = "sample"
    /\ UNCHANGED << csv, cfg, tableVars, tensorVars, splitVars, mode, params,
                    grad, applied, it, i, ops, y_pred, losses, logged,
                    evalVars, fnVars >>

\* for i in range(10): print(y_val[i].item(), y_test[i].item())
\* The loop variable is the script's i again.  Indexing past the last row
\* of y_val raises IndexError.
PrintSample ==
    /\ pc = "sample"
    /\ IF k < 10
       THEN /\ i' = k
            /\ IF k < Len(y_val)
               THEN /\ printed' = Append(printed, << y_val[k + 1], y_test[k + 1] >>)
                    /\ k' = k + 1
                    /\ pc' = "sample"
               ELSE /\ pc' = "IndexError"
                    /\ UNCHANGED << k, printed >>
       ELSE /\ pc' = "done"
            /\ UNCHANGED << i, k, printed >>
    /\ UNCHANGED << csv, cfg, tableVars, tensorVars, splitVars, modelVars,
                    it, ops, y_pred, loss, losses, logged,
                    evals, eval_ctx, y_val, fnVars >>

Next ==
    \/ ReadCsv \/ AddDistKm \/ ParseDatetime \/ AddEDTdate \/ AddHour
    \/ AddWeekday \/ AddRush \/ AsCategory \/ BuildTensors \/ EmbSizes
    \/ MakeModel \/ Split
    \/ LoopNext \/ Forward \/ ComputeLoss \/ RecordLoss \/ ZeroGrad
    \/ Backward \/ Step
    \/ EnterNoGrad \/ EvalForward \/ EvalLoss \/ PrintSample

Spec == Init /\ [][Next]_vars

\* ------------------------------------------- the two formulas on their own
InitFn ==
    /\ pc = "fn"
    /\ csv = << >>
    /\ cfg = [batch_n |-> BATCH_N, test_split |-> TEST_SPLIT]
    /\ Unassigned
    /\ fn_in \in [hour : 0..23, size : 1..MaxDistinct]
    /\ fn_out = [rush |-> "none", emb |-> << >>]

ApplyRushHour ==
    /\ pc = "fn"
    /\ fn_out.rush = "none"
    /\ fn_out' = [fn_out EXCEPT !.rush = rush_hour(fn_in)]
    /\ UNCHANGED << pc, csv, cfg, tableVars, tensorVars, splitVars, modelVars,
                    loopVars, evalVars, fn_in >>

ApplyEmbSz ==
    /\ pc = "fn"
    /\ fn_out.emb = << >>
    /\ fn_out' = [fn_out EXCEPT !.emb = emb_sz(fn_in.size)]
    /\ UNCHANGED << pc, csv, cfg, tableVars, tensorVars, splitVars, modelVars,
                    loopVars, evalVars, fn_in >>

NextFn == ApplyRushHour \/ ApplyEmbSz

SpecFn == InitFn /\ [][NextFn]_vars

\* ------------------------------------------------------------ where we are
FePcs == {"read_csv", "dist_km", "to_datetime", "edt", "hour", "weekday", "rush"}
BuildPcs == {"category", "tensors", "emb", "model", "split"}
EpochPcs == {"forward", "loss", "record", "zero_grad", "backward", "step"}
EvalPcs == {"no_grad", "eval_forward", "eval_loss"}
EndPcs == {"sample", "done", "IndexError"}

\* Feature engineering has run to its end.
FeDone == pc \in BuildPcs \cup {"loop"} \cup EpochPcs \cup EvalPcs \cup EndPcs
\* The split has been made.
SplitDone == pc \in {"loop"} \cup EpochPcs \cup EvalPcs \cup EndPcs
\* The training loop has ended.
TrainDone == pc \in EvalPcs \cup EndPcs

NewColumns == {"dist_km", "EDTdate", "hour", "weekday", "rush"}
EpochOrder == <<"forward", "loss", "record", "zero_grad", "backward", "step">>
Logged == Range(logged)

\* ------------------------------------------------------------------ claims

\* C1: for every hour in 0..23 rush_hour gives am_rush exactly for 8..9,
\* pm_rush exactly for 15..19 and regular for every other hour; the bounds
\* are inclusive and each hour gets exactly one bucket.
C1_RushHourBuckets ==
    fn_out.rush # "none" =>
        /\ fn_out.rush \in {"am_rush", "pm_rush", "regular"}
        /\ (fn_out.rush = "am_rush") <=> (fn_in.hour \in {8, 9})
        /\ (fn_out.rush = "pm_rush") <=> (fn_in.hour \in {15, 16, 17, 18, 19})
        /\ (fn_out.rush = "regular") <=>
               (fn_in.hour \in (0..7) \cup (10..14) \cup (20..23))

C1_Witness == fn_in.hour = 19 /\ fn_out.rush = "pm_rush"

\* C2 (as claimed): after the split the training and test sets together hold
\* total_batch_size rows, test_size = floor(total_batch_size * test_fraction)
\* of them in the test set and the rest in the training set; 4800 and 1200
\* for the defaults.
C2_SplitSizes ==
    SplitDone =>
        /\ test_size * cfg.test_split.den <= cfg.batch_n * cfg.test_split.num
        /\ (test_size + 1) * cfg.test_split.den > cfg.batch_n * cfg.test_split.num
        /\ Len(cat_test) = test_size
        /\ Len(cat_train) = cfg.batch_n - test_size
        /\ Len(cat_train) + Len(cat_test) = cfg.batch_n
        /\ (cfg.batch_n = 6000 /\ cfg.test_split = [num |-> 1, den |-> 5]) =>
               (Len(cat_train) = 4800 /\ Len(cat_test) = 1200)

\* C3 (as claimed): the first N - test_size rows are the training set, ALL
\* remaining rows of the tensors are the test set, every row is in one of
\* the two, and the three tensors are cut at the same indices.
C3_AllRowsSplit ==
    SplitDone =>
        LET n == Min(Len(cats), cfg.batch_n - test_size)
        IN  /\ cat_train = SubSeq(cats, 1, n)
            /\ con_train = SubSeq(conts, 1, n)
            /\ y_train = SubSeq(y, 1, n)
            /\ cat_test = SubSeq(cats, n + 1, Len(cats))
            /\ con_test = SubSeq(conts, n + 1, Len(conts))
            /\ y_test = SubSeq(y, n + 1, Len(y))
            /\ cat_train \o cat_test = cats

\* C3 (amended): the split partitions the first min(rows, BATCH_N) rows, in
\* source order: the rows below index BATCH_N - test_size are the training
\* set, the rows from there up to index BATCH_N the test set, the two index
\* ranges are disjoint and the same for the three tensors; rows from index
\* BATCH_N on are in neither set.
C3_FirstBatchSplit ==
    SplitDone =>
        LET n == Min(Len(cats), cfg.batch_n - test_size)
            m == Min(Len(cats), cfg.batch_n)
        IN  /\ Len(cats) = Len(csv) /\ Len(conts) = Len(csv) /\ Len(y) = Len(csv)
            /\ cat_train = SubSeq(cats, 1, n)
            /\ con_train = SubSeq(conts, 1, n)
            /\ y_train = SubSeq(y, 1, n)
            /\ cat_test = SubSeq(cats, n + 1, m)
            /\ con_test = SubSeq(conts, n + 1, m)
            /\ y_test = SubSeq(y, n + 1, m)
            /\ cat_train \o cat_test = SubSeq(cats, 1, m)
            /\ Len(y_train) + Len(y_test) = m

C3_Witness ==
    /\ SplitDone
    /\ Len(cats) > cfg.batch_n
    /\ Len(cat_train) > 0 /\ Len(cat_test) > 0

\* C4: the embedding spec of a column with n >= 1 categories is
\* (n, min(50, (n + 1) // 2)): 1 gives 1, 99 gives 50, 100 gives 50, and the
\* dimension exceeds neither 50 nor n.
C4_EmbeddingSize ==
    fn_out.emb # << >> =>
        LET n == fn_in.size
            d == fn_out.emb[2]
        IN  /\ fn_out.emb[1] = n
            /\ (2 * d = n \/ 2 * d = n + 1 \/ d = 50)
            /\ d = 50 <=> n >= 99
            /\ (n = 1 => d = 1) /\ (n = 99 => d = 50) /\ (n = 100 => d = 50)
            /\ d <= 50 /\ d <= n /\ d >= 1

C4_Witness == fn_in.size = 100 /\ fn_out.emb = <<100, 50>>

\* C5: in every epoch the steps run in the order forward, loss, record,
\* zero_grad, backward, step; the parameters change only in the optimizer
\* step, which follows zero_grad and backward of the same epoch, and the
\* gradient it applies is that of the current epoch's loss alone.
C5_EpochStepOrder ==
    /\ [](\E n \in 0..Len(EpochOrder) : ops = SubSeq(EpochOrder, 1, n))
    /\ [](pc \in EpochPcs => \E n \in 1..Len(EpochOrder) :
              /\ pc = EpochOrder[n]
              /\ ops = SubSeq(EpochOrder, 1, n - 1))
    /\ []((pc = "loop" /\ it > 0) => (ops = EpochOrder /\ applied = {i}))
    /\ [][params' # params =>
              /\ pc = "step"
              /\ ops = SubSeq(EpochOrder, 1, 5)
              /\ grad = {i}
              /\ applied' = {i}
              /\ params' = i]_vars

C5_Witness == pc = "loop" /\ it = 2 /\ params = 2 /\ applied = {2}

\* C6 (as claimed): the model is in TRAIN mode in every training epoch and
\* has been switched to EVAL when the evaluation forward pass runs.
C6_EvalInEvalMode ==
    /\ pc \in EpochPcs => mode = "TRAIN"
    /\ evals > 0 => eval_ctx.mode = "EVAL"

\* C7: the run makes exactly EPOCHS optimizer steps and then one evaluation
\* pass; the pass comes after the last step, runs with gradient tracking
\* off, and changes neither the parameters nor the recorded losses.
C7_EpochsThenOneEval ==
    /\ [](evals <= 1 /\ params <= EPOCHS)
    /\ [](evals = 1 =>
              /\ params = EPOCHS /\ it = EPOCHS /\ Len(losses) = EPOCHS
              /\ eval_ctx.grad_enabled = FALSE
              /\ eval_ctx.params = EPOCHS)
    /\ [](pc \in EndPcs => evals = 1)
    /\ [](pc \in {"eval_forward", "eval_loss"} => grad_enabled = FALSE)
    /\ [][TrainDone => (params' = params /\ losses' = losses /\ grad' = grad)]_vars

C7_Witness == pc = "done" /\ evals = 1 /\ params = EPOCHS /\ Len(printed) = 10

\* C8 (as claimed): one loss is recorded per epoch, in epoch order, and a log
\* line is printed for epoch e exactly when e is a multiple of 10.
C8_LogOnMultiplesOfTen ==
    /\ \A n \in 1..Len(losses) : losses[n].epoch = n
    /\ TrainDone => Len(losses) = EPOCHS
    /\ \A e \in 1..Len(losses) : (e \in Logged) <=> (e % 10 = 0)

\* C8 (amended): one loss is recorded per epoch, in epoch order (EPOCHS
\* losses after training), and a log line is printed for epoch e exactly
\* when e % 10 = 1: epochs 1, 11, 21, ..., every tenth epoch from the first.
C8_LogEveryTenthFromFirst ==
    /\ \A n \in 1..Len(losses) : losses[n].epoch = n /\ losses[n].of = "train"
    /\ Len(losses) = (IF pc \in {"forward", "loss", "record"} THEN it - 1 ELSE it)
    /\ pc \in EpochPcs => i = it
    /\ TrainDone => Len(losses) = EPOCHS
    /\ \A e \in 1..Len(losses) : (e \in Logged) <=> (e % 10 = 1)
    /\ Logged \subseteq 1..Len(losses)
    /\ Cardinality(Logged) = Len(logged)

C8_Witness ==
    /\ Len(losses) = 12
    /\ 1 \in Logged /\ 11 \in Logged /\ 10 \notin Logged /\ 12 \notin Logged

\* C9 (as claimed): feature engineering adds dist_km, EDTdate, hour, weekday
\* and rush and changes nothing else: every column of the raw table,
\* pickup_datetime included, holds the same values of the same kind, and
\* the rows are the same in number and order.
C9_RawColumnsUntouched ==
    FeDone =>
        /\ Len(df) = Len(csv)
        /\ Columns(df) = RawColumns \cup NewColumns
        /\ \A r \in DOMAIN df : \A c \in RawColumns : df[r][c] = csv[r][c]

\* C9 (amended): feature engineering adds dist_km, EDTdate, hour, weekday
\* and rush, and replaces pickup_datetime by its parsed form (text becomes a
\* timestamp of the same instant); every other column of the raw table
\* holds the same values, and the rows are the same in number and order.
C9_OnlyDatetimeReparsed ==
    FeDone =>
        /\ Len(df) = Len(csv)
        /\ Columns(df) = RawColumns \cup NewColumns
        /\ \A r \in DOMAIN df :
              /\ \A c \in RawColumns \ {"pickup_datetime"} : df[r][c] = csv[r][c]
              /\ csv[r].pickup_datetime.kind = "str"
              /\ df[r].pickup_datetime.kind = "datetime"
              /\ df[r].pickup_datetime.hours =
                     24 * csv[r].pickup_datetime.day + csv[r].pickup_datetime.hh

C9_Witness ==
    /\ pc = "category"
    /\ Len(df) >= 2
    /\ Columns(df) = RawColumns \cup NewColumns
    /\ df[1].pickup_datetime.kind = "datetime"

\* C10 (as claimed): for every total_batch_size and test_fraction the run
\* prints exactly ten (prediction, actual) pairs, those of the first ten
\* test rows, and never fails on an index out of range.  Stated here for the
\* tables that hold at least total_batch_size rows, so that the test set has
\* its full test_size rows.
C10_TenSamplesPrinted ==
    Len(csv) >= cfg.batch_n =>
        /\ pc # "IndexError"
        /\ pc = "done" =>
              /\ Len(printed) = 10
              /\ \A n \in 1..10 : printed[n] = << y_val[n], y_test[n] >>

=============================================================================
